---- MODULE Spec2Model ----
(***************************************************************************)
(* Model of the batch translation queue and scheduler.                     *)
(*                                                                         *)
(*   src/batch_processor.py  BatchTranslationQueue (the job records, the   *)
(*                           active set, the two history lists)            *)
(*   src/batch_threads.py    BatchTranslationManager.run (control loop),   *)
(*                           BatchTranslationManager.stop,                 *)
(*                           SingleJobWorker.run (one unit per dispatch)   *)
(*                                                                         *)
(* Every queue method runs under the queue's RLock, so each is one atomic  *)
(* step.  The worker's signals are connected with type=1, the value of     *)
(* Qt.DirectConnection: the manager's slots run in the emitting worker's   *)
(* thread, at the emit.  job_id is str(datetime.now().timestamp()): two    *)
(* jobs created at the same clock reading carry the same id.               *)
(***************************************************************************)
EXTENDS Integers, Sequences, FiniteSets

\* ------------------------------------------------------------------ bounds
MaxJobs == 2        \* jobs in a queue
MaxCalls == 1       \* terminal callbacks one executor invocation may make
MaxHistory == 2     \* entries of a history list under SpecQueue
MaxCap == MaxJobs           \* largest max_parallel_jobs tried
MaxWorkers == MaxJobs + 1   \* units spawned in one run

\* ------------------------------------------------------- TranslationStatus
PENDING == "pending"
RUNNING == "running"
COMPLETED == "completed"
FAILED == "failed"
SKIPPED == "skipped"

Terminal == {COMPLETED, FAILED, SKIPPED}

\* Python's None, for Optional fields and Optional results.
None == "None"
NoJob == 0

\* ------------------------------------------------------------- the queue
\* datetime.now().isoformat(): some reading of the clock (which reading is
\* not told apart).
Now == "now"

\* The files of the file system, and the paths callers pass: the files and
\* a path that resolves to nothing.
ExistingFiles == {"a.mp4", "b.mp4"}
Paths == ExistingFiles \cup {"missing.mp4"}

\* A fresh TranslationJob: PENDING, progress 0, no output_path, no
\* completed_at.
TranslationJob(file_path, id) ==
    [file_path |-> file_path, job_id |-> id, status |-> PENDING,
     progress |-> 0, output_path |-> None, completed_at |-> None]

\* BatchTranslationQueue.__init__
NewQueue(cap) ==
    [max_parallel_jobs |-> cap, jobs |-> << >>, active_jobs |-> {},
     completed_jobs |-> << >>, failed_jobs |-> << >>]

\* The position of the first job of the list carrying this id (the job the
\* "for job in self.jobs: if job.job_id == job_id: ... break" loops act on),
\* NoJob when there is none.
FirstWithId(q, id) ==
    LET hits == {i \in 1..Len(q.jobs) : q.jobs[i].job_id = id}
    IN IF hits = {} THEN NoJob
       ELSE CHOOSE i \in hits : \A k \in hits : i <= k

\* add_job, mutated: the job is appended before the file is looked for.
add_job_append_first(q, file_path, id) ==
    [queue |-> [q EXCEPT !.jobs = Append(@, TranslationJob(file_path, id))],
     raised |-> file_path \notin ExistingFiles,
     job |-> IF file_path \notin ExistingFiles THEN NoJob
             ELSE Len(q.jobs) + 1]

\* add_job: FileNotFoundError when os.path.exists(file_path) is false;
\* otherwise a PENDING job whose id is the clock reading is appended and
\* returned.  The result is the queue afterwards, whether the call raised,
\* and the job returned (its position).
add_job(q, file_path, id) ==
    IF file_path \notin ExistingFiles
    THEN [queue |-> q, raised |-> TRUE, job |-> NoJob]
    ELSE [queue |-> [q EXCEPT !.jobs = Append(@, TranslationJob(file_path, id))],
          raised |-> FALSE,
          job |-> Len(q.jobs) + 1]

\* get_pending_jobs, as positions in insertion order.
PendingSet(q) == {i \in 1..Len(q.jobs) : q.jobs[i].status = PENDING}

\* get_next_job, mutated: the newest pending job instead of the oldest.
get_next_job_last(q) ==
    IF Cardinality(q.active_jobs) < q.max_parallel_jobs /\ PendingSet(q) # {}
    THEN CHOOSE i \in PendingSet(q) : \A k \in PendingSet(q) : k <= i
    ELSE NoJob

\* get_next_job, mutated: capacity test off by one.
get_next_job_leq(q) ==
    IF Cardinality(q.active_jobs) <= q.max_parallel_jobs /\ PendingSet(q) # {}
    THEN CHOOSE i \in PendingSet(q) : \A k \in PendingSet(q) : i <= k
    ELSE NoJob

\* get_next_job: pending[0] when len(active_jobs) < max_parallel_jobs.
get_next_job(q) ==
    IF Cardinality(q.active_jobs) < q.max_parallel_jobs /\ PendingSet(q) # {}
    THEN CHOOSE i \in PendingSet(q) : \A k \in PendingSet(q) : i <= k
    ELSE NoJob

\* mark_started
mark_started(q, id) ==
    LET i == FirstWithId(q, id)
    IN IF i = NoJob THEN q
       ELSE [q EXCEPT !.jobs[i].status = RUNNING,
                      !.active_jobs = @ \cup {id}]

\* update_progress, mutated: the value is stored as given.
Clamp_none(progress) == progress

\* min(100, max(0, progress))
Clamp(progress) ==
    LET lo == IF progress < 0 THEN 0 ELSE progress
    IN IF lo > 100 THEN 100 ELSE lo

\* update_progress
update_progress(q, id, progress) ==
    LET i == FirstWithId(q, id)
    IN IF i = NoJob THEN q
       ELSE [q EXCEPT !.jobs[i].progress = Clamp(progress)]

\* mark_completed
mark_completed(q, id, output_path) ==
    LET i == FirstWithId(q, id)
    IN IF i = NoJob THEN q
       ELSE [q EXCEPT !.jobs[i].status = COMPLETED,
                      !.jobs[i].progress = 100,
                      !.jobs[i].completed_at = Now,
                      !.jobs[i].output_path = output_path,
                      !.completed_jobs = Append(@, i),
                      !.active_jobs = @ \ {id}]

\* mark_failed, mutated: a failure is recorded in the history even when no
\* job carries the id.
mark_failed_always(q, id) ==
    LET i == FirstWithId(q, id)
    IN IF i = NoJob THEN [q EXCEPT !.failed_jobs = Append(@, i)]
       ELSE [q EXCEPT !.jobs[i].status = FAILED,
                      !.jobs[i].completed_at = Now,
                      !.failed_jobs = Append(@, i),
                      !.active_jobs = @ \ {id}]

\* mark_failed
mark_failed(q, id) ==
    LET i == FirstWithId(q, id)
    IN IF i = NoJob THEN q
       ELSE [q EXCEPT !.jobs[i].status = FAILED,
                      !.jobs[i].completed_at = Now,
                      !.failed_jobs = Append(@, i),
                      !.active_jobs = @ \ {id}]

\* mark_skipped, mutated: the job is left in the active set.
mark_skipped_keep(q, id) ==
    LET i == FirstWithId(q, id)
    IN IF i = NoJob THEN q
       ELSE [q EXCEPT !.jobs[i].status = SKIPPED,
                      !.jobs[i].completed_at = Now]

\* mark_skipped
mark_skipped(q, id) ==
    LET i == FirstWithId(q, id)
    IN IF i = NoJob THEN q
       ELSE [q EXCEPT !.jobs[i].status = SKIPPED,
                      !.jobs[i].completed_at = Now,
                      !.active_jobs = @ \ {id}]

\* clear_completed, mutated: the active set is cleared with the histories.
clear_completed_all(q) ==
    [q EXCEPT !.completed_jobs = << >>, !.failed_jobs = << >>,
              !.active_jobs = {}]

\* clear_completed
clear_completed(q) ==
    [q EXCEPT !.completed_jobs = << >>, !.failed_jobs = << >>]

\* get_statistics
get_statistics(q) ==
    [total_jobs |-> Len(q.jobs),
     pending |-> Cardinality(PendingSet(q)),
     active |-> Cardinality(q.active_jobs),
     completed |-> Len(q.completed_jobs),
     failed |-> Len(q.failed_jobs),
     capacity |-> q.max_parallel_jobs]

\* sum(job.progress for job in self.jobs)
RECURSIVE SumProgress(_)
SumProgress(jobs) ==
    IF jobs = << >> THEN 0
    ELSE jobs[1].progress + SumProgress(Tail(jobs))

\* get_progress_summary: the early return for the empty queue carries three
\* keys; int(total_progress / total) of a non-negative quotient is its floor.
get_progress_summary(q) ==
    IF Len(q.jobs) = 0
    THEN [percentage |-> 0, completed |-> 0, total |-> 0]
    ELSE [percentage |-> SumProgress(q.jobs) \div Len(q.jobs),
          completed |-> Len(q.completed_jobs),
          total |-> Len(q.jobs),
          active |-> Cardinality(q.active_jobs)]

\* Jobs by status (not a field of the snapshot; counted from the records).
WithStatus(q, s) == {i \in 1..Len(q.jobs) : q.jobs[i].status = s}

\* ------------------------------------------------------------------ state
VARIABLES
    queue,            \* the BatchTranslationQueue
    is_running,       \* BatchTranslationManager.is_running
    active_threads,   \* BatchTranslationManager.active_threads: job_id -> unit
    workers,          \* every SingleJobWorker spawned, in spawn order
    mpc,              \* where the manager thread is in run()
    next_job,         \* run()'s local next_job (a position in queue.jobs)
    stop_pc,          \* where the caller of stop() is
    emitted,          \* times all_jobs_completed was emitted
    final_stats,      \* the snapshot all_jobs_completed carried
    lock,             \* the threads inside a "with self.lock" block
    snapshot,         \* the dict get_statistics is building or has returned
    call,             \* the last add_job / add_multiple_jobs call and its outcome
    simple,           \* the SimpleBatchProcessor: its jobs, run() and signals
    signals,          \* the job events the manager has emitted, as observed
    config,           \* the config maps of the jobs and the callbacks stored in them
    stamps,           \* the clock, and the started_at / completed_at readings stored
    processor         \* the MultiFileBatchProcessor: its managers and its last call

\* The lock and what is read under it: left alone by every step that is
\* described at the granularity of whole queue methods.
lockVars == <<lock, snapshot>>

\* What the run of the manager and its units never touches.
otherVars == <<call, simple, signals, config, stamps, processor>>

vars == <<queue, is_running, active_threads, workers, mpc, next_job, stop_pc,
          emitted, final_stats, lock, snapshot, otherVars>>

managerVars == <<is_running, active_threads, workers, mpc, next_job, stop_pc,
                 emitted, final_stats, lock, snapshot>>

EmptyMap == [id \in {} |-> 0]

\* run() has not reached final_stats = ... yet: a dict that no call of
\* get_statistics returns (capacity is at least 1).
NoStats ==
    [total_jobs |-> 0, pending |-> 0, active |-> 0, completed |-> 0,
     failed |-> 0, capacity |-> 0]

\* No add_job / add_multiple_jobs call recorded: op names the method,
\* paths its file_path argument(s), raised whether it ended in
\* FileNotFoundError, jobs the job(s) it returned (positions in queue.jobs).
NoCall == [op |-> None, paths |-> << >>, raised |-> FALSE, jobs |-> << >>]

\* get_statistics has read nothing yet (reads counts the fields read).
NoSnapshot ==
    [reads |-> 0, total_jobs |-> 0, pending |-> 0, active |-> 0,
     completed |-> 0, failed |-> 0, capacity |-> 0]

\* Clock readings that successive TranslationJob constructions can see: the
\* clock did not advance between two of them, or it did.
IdSeqs(n) ==
    {s \in [1..n -> 1..n] :
        /\ n >= 1 => s[1] = 1
        /\ \A i \in 1..(n - 1) : s[i + 1] \in {s[i], s[i] + 1}}

\* A queue filled by add_job before the manager is started.
FilledQueue(cap, ids) ==
    [NewQueue(cap) EXCEPT
        !.jobs = [i \in DOMAIN ids |-> TranslationJob("a.mp4", ids[i])]]

\* BatchTranslationManager.__init__, then start(): the thread exists and
\* run() has not begun.
ManagerInit ==
    /\ is_running = FALSE
    /\ active_threads = EmptyMap
    /\ workers = << >>
    /\ mpc = "start"
    /\ next_job = NoJob
    /\ stop_pc = "idle"
    /\ emitted = 0
    /\ final_stats = NoStats

\* BatchTranslationQueue.__init__, self.lock = threading.RLock(): nobody is
\* inside, and get_statistics has not been called.
LockInit ==
    /\ lock = {}
    /\ snapshot = NoSnapshot

\* Nothing has been added through the recorded calls yet.
\* What an executor invocation has done so far: the callbacks it has called
\* and how it ended.
NoExec == [progress |-> 0, completed |-> 0, failed |-> 0, result |-> None]

\* SimpleBatchProcessor.__init__: the jobs, no run yet, nothing emitted.
\* The jobs were built with a config map each, or with one map for all of
\* them; error_emitted[c] is config['error_emitted'] of map c.
NewSimple(jobs, shared) ==
    [jobs |-> jobs,
     shared |-> shared,
     error_emitted |-> [c \in DOMAIN jobs |-> FALSE],
     calls |-> [i \in DOMAIN jobs |-> NoExec],
     is_running |-> FALSE,
     pc |-> "idle",
     job_index |-> 0,
     completed |-> 0,
     failed |-> 0,
     events |-> << >>,
     finished |-> << >>,
     stopped |-> FALSE]

\* MultiFileBatchProcessor.__init__: self.manager = None. managers lists the
\* state of the thread of every manager created, the last one being
\* self.manager; starts counts the calls of start_processing and raised
\* tells whether the last one raised.
NoProcessor == [managers |-> << >>, starts |-> 0, raised |-> FALSE]

\* A timestamp field that was never written (None).
Unset == 0

\* Clock readings start at 1; n jobs, none of them started or ended.
NoStamps(n) ==
    [now |-> 1,
     started_at |-> [i \in 1..n |-> Unset],
     completed_at |-> [i \in 1..n |-> Unset]]

\* The config maps: every job has a map of its own, or all the jobs were
\* given one map (add_job keeps a non-empty config argument as it is).
\* handles[c] is the unit whose callbacks are stored in map c, 0 for none.
Configs(shared) ==
    [shared |-> shared, handles |-> [c \in 1..MaxJobs |-> 0]]

OwnConfigs == Configs(FALSE)

OtherInit ==
    /\ call = NoCall
    /\ simple = NewSimple(<< >>, FALSE)
    /\ signals = {}
    /\ processor = NoProcessor
    /\ config = OwnConfigs
    /\ stamps = NoStamps(0)

Init ==
    /\ \E cap \in 1..MaxCap, n \in 0..MaxJobs :
         \E ids \in IdSeqs(n) : queue = FilledQueue(cap, ids)
    /\ ManagerInit
    /\ LockInit
    /\ OtherInit

\* ------------------------------------------- BatchTranslationManager.run
\* run(), lines 50-51.
RunBegin ==
    /\ mpc = "start"
    /\ is_running' = TRUE
    /\ active_threads' = EmptyMap
    /\ mpc' = "loop"
    /\ UNCHANGED <<queue, workers, next_job, stop_pc, emitted, final_stats>>
    /\ UNCHANGED <<lockVars, otherVars>>

\* The units of active_threads whose thread has ended (not isRunning()).
Finished(at) == {id \in DOMAIN at : workers[at[id]].pc = "finished"}

\* The outer while test and the reaping of finished units, lines 54-67.
LoopReap ==
    /\ mpc = "loop"
    /\ IF is_running
       THEN /\ active_threads' =
                  [id \in DOMAIN active_threads \ Finished(active_threads)
                      |-> active_threads[id]]
            /\ mpc' = "dispatch"
       ELSE /\ mpc' = "finally"
            /\ UNCHANGED active_threads
    /\ UNCHANGED <<queue, is_running, workers, next_job, stop_pc, emitted,
                   final_stats>>
    /\ UNCHANGED <<lockVars, otherVars>>

\* The inner while test, line 70.
DispatchCheck ==
    /\ mpc = "dispatch"
    /\ mpc' = IF is_running
                 /\ Cardinality(DOMAIN active_threads) < queue.max_parallel_jobs
              THEN "get_next" ELSE "check_done"
    /\ UNCHANGED <<queue, is_running, active_threads, workers, next_job,
                   stop_pc, emitted, final_stats>>
    /\ UNCHANGED <<lockVars, otherVars>>

\* next_job = self.queue.get_next_job(); break when there is none, lines 71-73.
GetNext ==
    /\ mpc = "get_next"
    /\ next_job' = get_next_job(queue)
    /\ mpc' = IF get_next_job(queue) = NoJob THEN "check_done" ELSE "mark"
    /\ UNCHANGED <<queue, is_running, active_threads, workers, stop_pc,
                   emitted, final_stats>>
    /\ UNCHANGED <<lockVars, otherVars>>

\* A SingleJobWorker just started on the job at position j.
NewWorker(j) ==
    [job |-> j, pc |-> "exec", n_progress |-> 0, n_completed |-> 0,
     n_failed |-> 0, result |-> None, reported |-> {}]

\* mark_started, job_started, the new unit and its entry in active_threads,
\* lines 75-93.
MarkAndSpawn ==
    /\ mpc = "mark"
    /\ Len(workers) < MaxWorkers
    /\ LET id == queue.jobs[next_job].job_id
       IN /\ queue' = mark_started(queue, id)
          /\ workers' = Append(workers, NewWorker(next_job))
          /\ active_threads' =
                [k \in DOMAIN active_threads \cup {id} |->
                    IF k = id THEN Len(workers) + 1 ELSE active_threads[k]]
    /\ mpc' = "dispatch"
    /\ UNCHANGED <<is_running, next_job, stop_pc, emitted, final_stats>>
    /\ UNCHANGED <<lockVars, otherVars>>

\* The statistics snapshot, the exit test and the sleep, lines 95-105.
CheckDone ==
    /\ mpc = "check_done"
    /\ mpc' = IF DOMAIN active_threads = {} /\ PendingSet(queue) = {}
              THEN "finally" ELSE "loop"
    /\ UNCHANGED <<queue, is_running, active_threads, workers, next_job,
                   stop_pc, emitted, final_stats>>
    /\ UNCHANGED <<lockVars, otherVars>>

\* finally: is_running = False, line 108.
Finally ==
    /\ mpc = "finally"
    /\ is_running' = FALSE
    /\ mpc' = "join"
    /\ UNCHANGED <<queue, active_threads, workers, next_job, stop_pc,
                   emitted, final_stats>>
    /\ UNCHANGED <<lockVars, otherVars>>

\* run()'s finally block, mutated: the final snapshot is not emitted when a
\* unit is still running.
JoinAndEmit_skip ==
    /\ mpc = "join"
    /\ IF Finished(active_threads) = DOMAIN active_threads
       THEN /\ final_stats' = get_statistics(queue)
            /\ emitted' = emitted + 1
       ELSE UNCHANGED <<final_stats, emitted>>
    /\ mpc' = "done"
    /\ UNCHANGED <<queue, is_running, active_threads, workers, next_job,
                   stop_pc>>
    /\ UNCHANGED <<lockVars, otherVars>>

\* The bounded wait on each unit still running, thread.wait(timeout=5000),
\* read as the 5000 ms join it is written to be: it ends when the unit ends
\* or when the time is over, so the step can be taken whatever the units are
\* doing.  Then the final snapshot and all_jobs_completed, lines 109-119.
JoinAndEmit ==
    /\ mpc = "join"
    /\ mpc' = "done"
    /\ final_stats' = get_statistics(queue)
    /\ emitted' = emitted + 1
    /\ UNCHANGED <<queue, is_running, active_threads, workers, next_job,
                   stop_pc>>
    /\ UNCHANGED <<lockVars, otherVars>>

\* ------------------------------------------ BatchTranslationManager.stop
\* stop(), line 123: the flag is cleared; the caller then waits in wait().
Stop ==
    /\ stop_pc = "idle"
    /\ is_running' = FALSE
    /\ stop_pc' = "waiting"
    /\ UNCHANGED <<queue, active_threads, workers, mpc, next_job, emitted,
                   final_stats>>
    /\ UNCHANGED <<lockVars, otherVars>>

\* stop(), mutated: returns without waiting for the manager thread.
StopReturn_nowait ==
    /\ stop_pc = "waiting"
    /\ stop_pc' = "returned"
    /\ UNCHANGED <<queue, is_running, active_threads, workers, mpc, next_job,
                   emitted, final_stats>>
    /\ UNCHANGED <<lockVars, otherVars>>

\* stop(), line 124: wait() returns once the manager thread has ended.
StopReturn ==
    /\ stop_pc = "waiting"
    /\ mpc = "done"
    /\ stop_pc' = "returned"
    /\ UNCHANGED <<queue, is_running, active_threads, workers, mpc, next_job,
                   emitted, final_stats>>
    /\ UNCHANGED <<lockVars, otherVars>>

\* ------------------------------------------------- SingleJobWorker.run
\* What an executor may hand to on_completed.
OutputRefs == {None, "out"}

\* The id a unit's callbacks report: self.job.job_id.
WorkerId(w) == queue.jobs[workers[w].job].job_id

\* The executor calls on_completed(output_path): completed.emit, and in the
\* same thread _on_job_completed -> queue.mark_completed.
WorkerOnCompleted(w) ==
    /\ workers[w].pc = "exec"
    /\ workers[w].n_completed + workers[w].n_failed < MaxCalls
    /\ \E out \in OutputRefs :
         queue' = mark_completed(queue, WorkerId(w),
                                 IF out = None THEN "" ELSE out)
    /\ workers' = [workers EXCEPT ![w].n_completed = @ + 1]
    /\ UNCHANGED <<is_running, active_threads, mpc, next_job, stop_pc,
                   emitted, final_stats>>
    /\ UNCHANGED <<lockVars, otherVars>>

\* The executor calls on_failed(message): failed.emit, and in the same
\* thread _on_job_failed -> queue.mark_failed.
WorkerOnFailed(w) ==
    /\ workers[w].pc = "exec"
    /\ workers[w].n_completed + workers[w].n_failed < MaxCalls
    /\ queue' = mark_failed(queue, WorkerId(w))
    /\ workers' = [workers EXCEPT ![w].n_failed = @ + 1]
    /\ UNCHANGED <<is_running, active_threads, mpc, next_job, stop_pc,
                   emitted, final_stats>>
    /\ UNCHANGED <<lockVars, otherVars>>

\* How an executor invocation can end.
Results == {"true", "false", "raise"}

\* The executor returns or raises, lines 180-186: "if not success" and the
\* except clause emit failed; a true result emits nothing.
WorkerReturn(w) ==
    /\ workers[w].pc = "exec"
    /\ \E r \in Results :
         /\ workers' = [workers EXCEPT ![w].pc = "exiting", ![w].result = r]
         /\ queue' = IF r = "true" THEN queue
                     ELSE mark_failed(queue, WorkerId(w))
    /\ UNCHANGED <<is_running, active_threads, mpc, next_job, stop_pc,
                   emitted, final_stats>>
    /\ UNCHANGED <<lockVars, otherVars>>

\* run() is over: the thread ends and isRunning() turns false.
WorkerFinish(w) ==
    /\ workers[w].pc = "exiting"
    /\ workers' = [workers EXCEPT ![w].pc = "finished"]
    /\ UNCHANGED <<queue, is_running, active_threads, mpc, next_job, stop_pc,
                   emitted, final_stats>>
    /\ UNCHANGED <<lockVars, otherVars>>

\* ------------------------------------------------------ the scheduler run
Next ==
    \/ RunBegin
    \/ LoopReap
    \/ DispatchCheck
    \/ GetNext
    \/ MarkAndSpawn
    \/ CheckDone
    \/ Finally
    \/ JoinAndEmit
    \/ Stop
    \/ StopReturn
    \/ \E w \in 1..Len(workers) : WorkerOnCompleted(w)
    \/ \E w \in 1..Len(workers) : WorkerOnFailed(w)
    \/ \E w \in 1..Len(workers) : WorkerReturn(w)
    \/ \E w \in 1..Len(workers) : WorkerFinish(w)

Spec == Init /\ [][Next]_vars

\* ------------------------------------------- a run with a hanging executor
\* Values a caller may pass to update_progress.
ProgressInputs == {-5, 50, 150}

\* The executor calls on_progress(progress, message): progress.emit, and in
\* the same thread _on_job_progress -> queue.update_progress.
WorkerOnProgress(w) ==
    /\ workers[w].pc = "exec"
    /\ \E p \in ProgressInputs :
         queue' = update_progress(queue, WorkerId(w), p)
    /\ UNCHANGED managerVars
    /\ UNCHANGED otherVars

\* One job in the queue when the manager is started.
InitHang ==
    /\ \E cap \in 1..MaxCap : queue = FilledQueue(cap, <<1>>)
    /\ ManagerInit
    /\ LockInit
    /\ OtherInit

\* The steps of the manager thread.
ManagerStep ==
    \/ RunBegin
    \/ LoopReap
    \/ DispatchCheck
    \/ GetNext
    \/ MarkAndSpawn
    \/ CheckDone
    \/ Finally
    \/ JoinAndEmit

\* The executor reports progress and never returns: the unit stays in
\* execute_callback for ever.
NextHang ==
    \/ ManagerStep
    \/ Stop
    \/ StopReturn
    \/ \E w \in 1..Len(workers) : WorkerOnProgress(w)

\* The manager thread and the thread blocked in stop() are scheduled: a step
\* of theirs that stays possible is taken (each manager step moves mpc, and
\* the return of stop() moves stop_pc).  The executor owes nothing.
SpecHang ==
    /\ InitHang
    /\ [][NextHang]_vars
    /\ WF_mpc(ManagerStep)
    /\ WF_stop_pc(StopReturn)

\* ------------------------------------------------ the run, lock by lock
\* The same run with every queue method taken apart into entering its
\* "with self.lock" block and the body that ends by leaving it.  Threads are
\* the manager and the units, named by their position in workers.
Manager == 0

\* self.lock (an RLock; no thread of the run re-enters it), mutated: the
\* lock excludes nobody.
CanAcquire_always(t) == TRUE

\* A thread gets self.lock when no thread is inside.
CanAcquire(t) == lock = {}

\* The manager's position once inside the queue method it was about to call.
Inside ==
    [get_next |-> "get_next_in", mark |-> "mark_in", pending |-> "pending_in"]

\* get_next_job, mark_started, get_pending_jobs: "with self.lock".
LAcquire ==
    /\ mpc \in DOMAIN Inside
    /\ mpc = "mark" => Len(workers) < MaxWorkers
    /\ CanAcquire(Manager)
    /\ lock' = lock \cup {Manager}
    /\ mpc' = Inside[mpc]
    /\ UNCHANGED <<queue, is_running, active_threads, workers, next_job,
                   stop_pc, emitted, final_stats, snapshot>>
    /\ UNCHANGED otherVars

\* The body of get_next_job, and its return.
LGetNext ==
    /\ mpc = "get_next_in"
    /\ next_job' = get_next_job(queue)
    /\ mpc' = IF get_next_job(queue) = NoJob THEN "check_done" ELSE "mark"
    /\ lock' = lock \ {Manager}
    /\ UNCHANGED <<queue, is_running, active_threads, workers, stop_pc,
                   emitted, final_stats, snapshot>>
    /\ UNCHANGED otherVars

\* The body of mark_started and its return; then the unit is created,
\* started and entered in active_threads, lines 79-93.
LMarkStarted ==
    /\ mpc = "mark_in"
    /\ LET id == queue.jobs[next_job].job_id
       IN /\ queue' = mark_started(queue, id)
          /\ workers' = Append(workers, NewWorker(next_job))
          /\ active_threads' =
                [k \in DOMAIN active_threads \cup {id} |->
                    IF k = id THEN Len(workers) + 1 ELSE active_threads[k]]
    /\ mpc' = "dispatch"
    /\ lock' = lock \ {Manager}
    /\ UNCHANGED <<is_running, next_job, stop_pc, emitted, final_stats,
                   snapshot>>
    /\ UNCHANGED otherVars

\* get_statistics, first part: the lock is taken, the pending jobs are
\* counted and the dict's first entries are evaluated.
StatsBegin(q) ==
    [NoSnapshot EXCEPT !.reads = 1,
                       !.total_jobs = Len(q.jobs),
                       !.pending = Cardinality(PendingSet(q)),
                       !.active = Cardinality(q.active_jobs)]

\* get_statistics, second part: the dict's remaining entries.
StatsEnd(snap, q) ==
    [snap EXCEPT !.reads = 2,
                 !.completed = Len(q.completed_jobs),
                 !.failed = Len(q.failed_jobs),
                 !.capacity = q.max_parallel_jobs]

\* The dict get_statistics returns.
Returned(snap) ==
    [total_jobs |-> snap.total_jobs, pending |-> snap.pending,
     active |-> snap.active, completed |-> snap.completed,
     failed |-> snap.failed, capacity |-> snap.capacity]

\* stats = self.queue.get_statistics() in the loop (line 96) and in the
\* finally block (line 118): entering.
LStatsBegin ==
    /\ mpc \in {"check_done", "final"}
    /\ CanAcquire(Manager)
    /\ lock' = lock \cup {Manager}
    /\ snapshot' = StatsBegin(queue)
    /\ mpc' = IF mpc = "check_done" THEN "stats_in" ELSE "final_in"
    /\ UNCHANGED <<queue, is_running, active_threads, workers, next_job,
                   stop_pc, emitted, final_stats>>
    /\ UNCHANGED otherVars

\* get_statistics returns; in the finally block the dict is emitted with
\* all_jobs_completed.
LStatsEnd ==
    /\ mpc \in {"stats_in", "final_in"}
    /\ snapshot' = StatsEnd(snapshot, queue)
    /\ lock' = lock \ {Manager}
    /\ IF mpc = "stats_in"
       THEN /\ mpc' = "pending"
            /\ UNCHANGED <<emitted, final_stats>>
       ELSE /\ mpc' = "done"
            /\ emitted' = emitted + 1
            /\ final_stats' = Returned(snapshot')
    /\ UNCHANGED <<queue, is_running, active_threads, workers, next_job,
                   stop_pc>>
    /\ UNCHANGED otherVars

\* The exit test, mutated: the lock of get_pending_jobs is kept over the
\* sleep.
LCheckDone_keep ==
    /\ mpc = "pending_in"
    /\ mpc' = IF DOMAIN active_threads = {} /\ PendingSet(queue) = {}
              THEN "finally" ELSE "sleep"
    /\ snapshot' = NoSnapshot
    /\ UNCHANGED <<queue, is_running, active_threads, workers, next_job,
                   stop_pc, emitted, final_stats, lock>>
    /\ UNCHANGED otherVars

\* The body of get_pending_jobs and its return, then the exit test, lines
\* 99-102.  The dict of this round is dropped.
LCheckDone ==
    /\ mpc = "pending_in"
    /\ mpc' = IF DOMAIN active_threads = {} /\ PendingSet(queue) = {}
              THEN "finally" ELSE "sleep"
    /\ lock' = lock \ {Manager}
    /\ snapshot' = NoSnapshot
    /\ UNCHANGED <<queue, is_running, active_threads, workers, next_job,
                   stop_pc, emitted, final_stats>>
    /\ UNCHANGED otherVars

\* time.sleep(0.2), line 105.
LSleep ==
    /\ mpc = "sleep"
    /\ mpc' = "loop"
    /\ UNCHANGED <<queue, is_running, active_threads, workers, next_job,
                   stop_pc, emitted, final_stats, lock, snapshot>>
    /\ UNCHANGED otherVars

\* The bounded wait on the units still running, lines 110-116.
LJoinWait ==
    /\ mpc = "join"
    /\ mpc' = "final"
    /\ UNCHANGED <<queue, is_running, active_threads, workers, next_job,
                   stop_pc, emitted, final_stats, lock, snapshot>>
    /\ UNCHANGED otherVars

\* The executor calls on_completed: the slot enters mark_completed.
LCallCompleted(w) ==
    /\ workers[w].pc = "exec"
    /\ workers[w].n_completed + workers[w].n_failed < MaxCalls
    /\ CanAcquire(w)
    /\ lock' = lock \cup {w}
    /\ workers' = [workers EXCEPT ![w].pc = "on_completed_in"]
    /\ UNCHANGED <<queue, is_running, active_threads, mpc, next_job, stop_pc,
                   emitted, final_stats, snapshot>>
    /\ UNCHANGED otherVars

\* The body of mark_completed and its return to the executor.
LMarkCompleted(w) ==
    /\ workers[w].pc = "on_completed_in"
    /\ \E out \in OutputRefs :
         queue' = mark_completed(queue, WorkerId(w),
                                 IF out = None THEN "" ELSE out)
    /\ workers' = [workers EXCEPT ![w].pc = "exec", ![w].n_completed = @ + 1]
    /\ lock' = lock \ {w}
    /\ UNCHANGED <<is_running, active_threads, mpc, next_job, stop_pc,
                   emitted, final_stats, snapshot>>
    /\ UNCHANGED otherVars

\* The executor calls on_failed: the slot enters mark_failed.
LCallFailed(w) ==
    /\ workers[w].pc = "exec"
    /\ workers[w].n_completed + workers[w].n_failed < MaxCalls
    /\ CanAcquire(w)
    /\ lock' = lock \cup {w}
    /\ workers' = [workers EXCEPT ![w].pc = "on_failed_in"]
    /\ UNCHANGED <<queue, is_running, active_threads, mpc, next_job, stop_pc,
                   emitted, final_stats, snapshot>>
    /\ UNCHANGED otherVars

\* The executor returns or raises, lines 180-186: a true result ends the
\* unit's work; otherwise failed is emitted and the slot enters mark_failed.
LReturn(w) ==
    /\ workers[w].pc = "exec"
    /\ \E r \in Results :
         IF r = "true"
         THEN /\ workers' = [workers EXCEPT ![w].pc = "exiting",
                                            ![w].result = r]
              /\ UNCHANGED lock
         ELSE /\ CanAcquire(w)
              /\ lock' = lock \cup {w}
              /\ workers' = [workers EXCEPT ![w].pc = "emit_failed_in",
                                            ![w].result = r]
    /\ UNCHANGED <<queue, is_running, active_threads, mpc, next_job, stop_pc,
                   emitted, final_stats, snapshot>>
    /\ UNCHANGED otherVars

\* The body of mark_failed and its return: to the executor that called
\* on_failed, or to the end of SingleJobWorker.run.
LMarkFailed(w) ==
    /\ workers[w].pc \in {"on_failed_in", "emit_failed_in"}
    /\ queue' = mark_failed(queue, WorkerId(w))
    /\ workers' = IF workers[w].pc = "on_failed_in"
                  THEN [workers EXCEPT ![w].pc = "exec",
                                       ![w].n_failed = @ + 1]
                  ELSE [workers EXCEPT ![w].pc = "exiting"]
    /\ lock' = lock \ {w}
    /\ UNCHANGED <<is_running, active_threads, mpc, next_job, stop_pc,
                   emitted, final_stats, snapshot>>
    /\ UNCHANGED otherVars

NextLock ==
    \/ RunBegin
    \/ LoopReap
    \/ DispatchCheck
    \/ LAcquire
    \/ LGetNext
    \/ LMarkStarted
    \/ LStatsBegin
    \/ LStatsEnd
    \/ LCheckDone
    \/ LSleep
    \/ Finally
    \/ LJoinWait
    \/ Stop
    \/ StopReturn
    \/ \E w \in 1..Len(workers) : LCallCompleted(w)
    \/ \E w \in 1..Len(workers) : LMarkCompleted(w)
    \/ \E w \in 1..Len(workers) : LCallFailed(w)
    \/ \E w \in 1..Len(workers) : LReturn(w)
    \/ \E w \in 1..Len(workers) : LMarkFailed(w)
    \/ \E w \in 1..Len(workers) : WorkerFinish(w)

SpecLock == Init /\ [][NextLock]_vars

\* ------------------------------------------------- the queue's own interface
\* BatchTranslationQueue used directly, by any caller: every public mutator,
\* in any order, with any id.  The manager is constructed and never started.
InitQueue ==
    /\ \E cap \in 1..MaxCap : queue = NewQueue(cap)
    /\ ManagerInit
    /\ LockInit
    /\ OtherInit

\* Ids a caller may pass: those of the jobs, and one that no job carries.
CallIds == 1..(MaxJobs + 1)


\* The clock reading a new job's id is taken from: the reading the previous
\* job saw, or a later one.
NextIds(q) ==
    IF Len(q.jobs) = 0 THEN {1}
    ELSE {q.jobs[Len(q.jobs)].job_id, q.jobs[Len(q.jobs)].job_id + 1}

QAddJob ==
    /\ Len(queue.jobs) < MaxJobs
    /\ \E id \in NextIds(queue) : queue' = add_job(queue, "a.mp4", id).queue
    /\ UNCHANGED managerVars
    /\ UNCHANGED otherVars

QMarkStarted ==
    /\ \E id \in CallIds : queue' = mark_started(queue, id)
    /\ UNCHANGED managerVars
    /\ UNCHANGED otherVars

QUpdateProgress ==
    /\ \E id \in CallIds, p \in ProgressInputs :
         queue' = update_progress(queue, id, p)
    /\ UNCHANGED managerVars
    /\ UNCHANGED otherVars

QMarkCompleted ==
    /\ Len(queue.completed_jobs) < MaxHistory
    /\ \E id \in CallIds, out \in {None, "", "out"} :
         queue' = mark_completed(queue, id, out)
    /\ UNCHANGED managerVars
    /\ UNCHANGED otherVars

QMarkFailed ==
    /\ Len(queue.failed_jobs) < MaxHistory
    /\ \E id \in CallIds : queue' = mark_failed(queue, id)
    /\ UNCHANGED managerVars
    /\ UNCHANGED otherVars

QMarkSkipped ==
    /\ \E id \in CallIds : queue' = mark_skipped(queue, id)
    /\ UNCHANGED managerVars
    /\ UNCHANGED otherVars

QClearCompleted ==
    /\ queue' = clear_completed(queue)
    /\ UNCHANGED managerVars
    /\ UNCHANGED otherVars

NextQueue ==
    \/ QAddJob
    \/ QMarkStarted
    \/ QUpdateProgress
    \/ QMarkCompleted
    \/ QMarkFailed
    \/ QMarkSkipped
    \/ QClearCompleted

SpecQueue == InitQueue /\ [][NextQueue]_vars

\* ------------------------------------------------------- filling the queue
MaxPaths == MaxJobs + 1     \* longest file list given to add_multiple_jobs

\* The id of the next TranslationJob: the clock reading of the last job
\* when the clock has not advanced since, the next reading when it has.
ClockReading(q, tick) ==
    IF Len(q.jobs) = 0 THEN 1
    ELSE q.jobs[Len(q.jobs)].job_id + (IF tick THEN 1 ELSE 0)

\* add_multiple_jobs, mutated: without the try/except, the first missing
\* file ends the call.
RECURSIVE add_multiple_jobs_abort(_, _, _)
add_multiple_jobs_abort(q, file_paths, ticks) ==
    IF file_paths = << >>
    THEN [queue |-> q, raised |-> FALSE, jobs |-> << >>]
    ELSE LET one == add_job(q, Head(file_paths), ClockReading(q, Head(ticks)))
             rest == add_multiple_jobs_abort(one.queue, Tail(file_paths),
                                             Tail(ticks))
         IN IF one.raised
            THEN [queue |-> q, raised |-> TRUE, jobs |-> << >>]
            ELSE [queue |-> rest.queue, raised |-> rest.raised,
                  jobs |-> <<one.job>> \o rest.jobs]

\* add_multiple_jobs: add_job on each path in turn; FileNotFoundError is
\* caught and the path skipped; the jobs added are returned.
RECURSIVE add_multiple_jobs(_, _, _)
add_multiple_jobs(q, file_paths, ticks) ==
    IF file_paths = << >>
    THEN [queue |-> q, raised |-> FALSE, jobs |-> << >>]
    ELSE LET one == add_job(q, Head(file_paths), ClockReading(q, Head(ticks)))
             rest == add_multiple_jobs(one.queue, Tail(file_paths), Tail(ticks))
         IN [queue |-> rest.queue,
             raised |-> rest.raised,
             jobs |-> IF one.raised THEN rest.jobs
                      ELSE <<one.job>> \o rest.jobs]

\* The existing files among the paths, in their order.
ExistingOf(file_paths) ==
    SelectSeq(file_paths, LAMBDA f : f \in ExistingFiles)

\* A caller adds one file.
AAddJob ==
    /\ Len(queue.jobs) < MaxJobs
    /\ \E f \in Paths, id \in NextIds(queue) :
         LET r == add_job(queue, f, id)
         IN /\ queue' = r.queue
            /\ call' = [op |-> "add_job", paths |-> <<f>>, raised |-> r.raised,
                        jobs |-> IF r.raised THEN << >> ELSE <<r.job>>]
    /\ UNCHANGED <<managerVars, simple, signals, config, stamps, processor>>

\* A caller adds a list of files.
AAddMultiple ==
    \E n \in 0..MaxPaths :
      \E fs \in [1..n -> Paths], ticks \in [1..n -> BOOLEAN] :
        /\ Len(queue.jobs) + Len(ExistingOf(fs)) <= MaxJobs
        /\ LET r == add_multiple_jobs(queue, fs, ticks)
           IN /\ queue' = r.queue
              /\ call' = [op |-> "add_multiple_jobs", paths |-> fs,
                          raised |-> r.raised, jobs |-> r.jobs]
        /\ UNCHANGED <<managerVars, simple, signals, config, stamps, processor>>

NextAdd ==
    \/ AAddJob
    \/ AAddMultiple

SpecAdd == InitQueue /\ [][NextAdd]_vars

\* ------------------------------------------------- the events of a run
\* What an observer of the manager's signals sees when an event for an id
\* is emitted: for job_completed and job_failed the status of the job that
\* get_job(id) returns, and whether job_started was emitted for the id before.
Signal(kind, id) ==
    [kind |-> kind,
     id |-> id,
     status |-> IF kind \in {"job_completed", "job_failed"}
                   /\ FirstWithId(queue, id) # NoJob
                THEN queue.jobs[FirstWithId(queue, id)].status
                ELSE None,
     started |-> kind = "job_started"
                 \/ \E e \in signals : e.kind = "job_started" /\ e.id = id]

\* Units the manager spawns in a run whose events are observed.
MaxUnits == MaxJobs

\* self.queue.mark_started(next_job.job_id), line 75.
EMarkStarted ==
    /\ mpc = "mark"
    /\ Len(workers) < MaxUnits
    /\ queue' = mark_started(queue, queue.jobs[next_job].job_id)
    /\ mpc' = "spawn"
    /\ UNCHANGED <<is_running, active_threads, workers, next_job, stop_pc,
                   emitted, final_stats>>
    /\ UNCHANGED <<lockVars, otherVars>>

\* job_started is emitted, then the unit is created, connected, started and
\* entered in active_threads, lines 76-93.
ESpawn ==
    /\ mpc = "spawn"
    /\ LET id == queue.jobs[next_job].job_id
       IN /\ signals' = signals \cup {Signal("job_started", id)}
          /\ workers' = Append(workers, NewWorker(next_job))
          /\ active_threads' =
                [k \in DOMAIN active_threads \cup {id} |->
                    IF k = id THEN Len(workers) + 1 ELSE active_threads[k]]
    /\ mpc' = "dispatch"
    /\ UNCHANGED <<queue, is_running, next_job, stop_pc, emitted, final_stats>>
    /\ UNCHANGED <<lockVars, call, simple, config, stamps, processor>>

\* The executor calls on_progress: _on_job_progress calls
\* queue.update_progress and emits job_progress, lines 128-129.
EOnProgress(w) ==
    /\ workers[w].pc = "exec"
    /\ workers[w].n_progress < MaxCalls
    /\ \E p \in ProgressInputs :
         queue' = update_progress(queue, WorkerId(w), p)
    /\ signals' = signals \cup {Signal("job_progress", WorkerId(w))}
    /\ workers' = [workers EXCEPT ![w].n_progress = @ + 1]
    /\ UNCHANGED <<is_running, active_threads, mpc, next_job, stop_pc,
                   emitted, final_stats>>
    /\ UNCHANGED <<lockVars, call, simple, config, stamps, processor>>

\* The executor calls on_completed: _on_job_completed begins with
\* queue.mark_completed, line 134.
EOnCompleted(w) ==
    /\ workers[w].pc = "exec"
    /\ workers[w].n_completed + workers[w].n_failed < MaxCalls
    /\ \E out \in OutputRefs :
         queue' = mark_completed(queue, WorkerId(w),
                                 IF out = None THEN "" ELSE out)
    /\ workers' = [workers EXCEPT ![w].n_completed = @ + 1,
                                  ![w].pc = "emit_completed"]
    /\ UNCHANGED <<is_running, active_threads, mpc, next_job, stop_pc,
                   emitted, final_stats>>
    /\ UNCHANGED <<lockVars, otherVars>>

\* The executor calls on_failed: _on_job_failed begins with
\* queue.mark_failed, line 140.
EOnFailed(w) ==
    /\ workers[w].pc = "exec"
    /\ workers[w].n_completed + workers[w].n_failed < MaxCalls
    /\ queue' = mark_failed(queue, WorkerId(w))
    /\ workers' = [workers EXCEPT ![w].n_failed = @ + 1,
                                  ![w].pc = "emit_failed"]
    /\ UNCHANGED <<is_running, active_threads, mpc, next_job, stop_pc,
                   emitted, final_stats>>
    /\ UNCHANGED <<lockVars, otherVars>>

\* The executor returns or raises, lines 180-186: a true result ends the
\* unit; otherwise failed is emitted and _on_job_failed begins.
EReturn(w) ==
    /\ workers[w].pc = "exec"
    /\ \E r \in Results :
         /\ workers' = [workers EXCEPT
                          ![w].result = r,
                          ![w].pc = IF r = "true" THEN "exiting"
                                    ELSE "emit_failed_last"]
         /\ queue' = IF r = "true" THEN queue
                     ELSE mark_failed(queue, WorkerId(w))
    /\ UNCHANGED <<is_running, active_threads, mpc, next_job, stop_pc,
                   emitted, final_stats>>
    /\ UNCHANGED <<lockVars, otherVars>>

\* The event a slot emits after its queue call, lines 135 and 141.
SlotEvent ==
    [emit_completed |-> "job_completed", emit_failed |-> "job_failed",
     emit_failed_last |-> "job_failed"]

\* The slot emits the manager's event and returns to the executor, or to
\* the end of the unit's run().
EEmit(w) ==
    /\ workers[w].pc \in DOMAIN SlotEvent
    /\ signals' = signals \cup {Signal(SlotEvent[workers[w].pc], WorkerId(w))}
    /\ workers' = [workers EXCEPT
                     ![w].pc = IF @ = "emit_failed_last" THEN "exiting"
                               ELSE "exec"]
    /\ UNCHANGED <<queue, is_running, active_threads, mpc, next_job, stop_pc,
                   emitted, final_stats>>
    /\ UNCHANGED <<lockVars, call, simple, config, stamps, processor>>

NextEvents ==
    \/ RunBegin
    \/ LoopReap
    \/ DispatchCheck
    \/ GetNext
    \/ EMarkStarted
    \/ ESpawn
    \/ CheckDone
    \/ Finally
    \/ JoinAndEmit
    \/ \E w \in 1..Len(workers) : EOnProgress(w)
    \/ \E w \in 1..Len(workers) : EOnCompleted(w)
    \/ \E w \in 1..Len(workers) : EOnFailed(w)
    \/ \E w \in 1..Len(workers) : EReturn(w)
    \/ \E w \in 1..Len(workers) : EEmit(w)
    \/ \E w \in 1..Len(workers) : WorkerFinish(w)

SpecEvents == Init /\ [][NextEvents]_vars

\* ------------------------------------ callbacks handed over in job.config
\* The config map of the job at position j.
ConfigOf(j) == IF config.shared THEN 1 ELSE j

\* The id a callback read from the config of unit w's job reports: the
\* job_id of the unit that stored it (the closure's self.job.job_id).
HandleId(w) == WorkerId(config.handles[ConfigOf(workers[w].job)])

\* mark_started, job_started, and the new unit, whose run() has not begun.
CSpawn ==
    /\ mpc = "mark"
    /\ Len(workers) < MaxUnits
    /\ LET id == queue.jobs[next_job].job_id
       IN /\ queue' = mark_started(queue, id)
          /\ workers' = Append(workers,
                               [NewWorker(next_job) EXCEPT !.pc = "begin"])
          /\ active_threads' =
                [k \in DOMAIN active_threads \cup {id} |->
                    IF k = id THEN Len(workers) + 1 ELSE active_threads[k]]
    /\ mpc' = "dispatch"
    /\ UNCHANGED <<is_running, next_job, stop_pc, emitted, final_stats>>
    /\ UNCHANGED <<lockVars, call, simple, signals, config, stamps, processor>>

\* SingleJobWorker.run stores its callbacks in self.job.config, lines
\* 175-177, and invokes the executor.
CStore(w) ==
    /\ workers[w].pc = "begin"
    /\ config' = [config EXCEPT !.handles[ConfigOf(workers[w].job)] = w]
    /\ workers' = [workers EXCEPT ![w].pc = "exec"]
    /\ UNCHANGED <<queue, is_running, active_threads, mpc, next_job, stop_pc,
                   emitted, final_stats>>
    /\ UNCHANGED <<lockVars, call, simple, signals, stamps, processor>>

\* The executor of unit w calls job.config['_on_progress'].
COnProgress(w) ==
    /\ workers[w].pc = "exec"
    /\ workers[w].n_progress < MaxCalls
    /\ \E p \in ProgressInputs :
         queue' = update_progress(queue, HandleId(w), p)
    /\ workers' = [workers EXCEPT ![w].n_progress = @ + 1,
                                  ![w].reported = @ \cup {HandleId(w)}]
    /\ UNCHANGED <<is_running, active_threads, mpc, next_job, stop_pc,
                   emitted, final_stats>>
    /\ UNCHANGED <<lockVars, otherVars>>

\* The executor of unit w calls job.config['_on_completed'].
COnCompleted(w) ==
    /\ workers[w].pc = "exec"
    /\ workers[w].n_completed + workers[w].n_failed < MaxCalls
    /\ \E out \in OutputRefs :
         queue' = mark_completed(queue, HandleId(w),
                                 IF out = None THEN "" ELSE out)
    /\ workers' = [workers EXCEPT ![w].n_completed = @ + 1,
                                  ![w].reported = @ \cup {HandleId(w)}]
    /\ UNCHANGED <<is_running, active_threads, mpc, next_job, stop_pc,
                   emitted, final_stats>>
    /\ UNCHANGED <<lockVars, otherVars>>

\* The executor of unit w calls job.config['_on_failed'].
COnFailed(w) ==
    /\ workers[w].pc = "exec"
    /\ workers[w].n_completed + workers[w].n_failed < MaxCalls
    /\ queue' = mark_failed(queue, HandleId(w))
    /\ workers' = [workers EXCEPT ![w].n_failed = @ + 1,
                                  ![w].reported = @ \cup {HandleId(w)}]
    /\ UNCHANGED <<is_running, active_threads, mpc, next_job, stop_pc,
                   emitted, final_stats>>
    /\ UNCHANGED <<lockVars, otherVars>>

\* The queue was filled with one config map for all the jobs, or with a
\* map per job.
InitConfig ==
    /\ \E cap \in 1..MaxCap, n \in 0..MaxJobs :
         \E ids \in IdSeqs(n) : queue = FilledQueue(cap, ids)
    /\ ManagerInit
    /\ LockInit
    /\ call = NoCall
    /\ simple = NewSimple(<< >>, FALSE)
    /\ signals = {}
    /\ processor = NoProcessor
    /\ stamps = NoStamps(0)
    /\ \E shared \in BOOLEAN : config = Configs(shared)

NextConfig ==
    \/ RunBegin
    \/ LoopReap
    \/ DispatchCheck
    \/ GetNext
    \/ CSpawn
    \/ CheckDone
    \/ Finally
    \/ JoinAndEmit
    \/ \E w \in 1..Len(workers) : CStore(w)
    \/ \E w \in 1..Len(workers) : COnProgress(w)
    \/ \E w \in 1..Len(workers) : COnCompleted(w)
    \/ \E w \in 1..Len(workers) : COnFailed(w)
    \/ \E w \in 1..Len(workers) : WorkerReturn(w)
    \/ \E w \in 1..Len(workers) : WorkerFinish(w)

SpecConfig == InitConfig /\ [][NextConfig]_vars

\* ------------------------------------------------- the stored timestamps
MaxClock == 3      \* clock readings a run of the queue's interface sees

\* datetime.now().isoformat() stored in a field of the job the call acts on.
Stamped(field, id) ==
    LET i == FirstWithId(queue, id)
    IN IF i = NoJob THEN stamps
       ELSE [stamps EXCEPT ![field][i] = stamps.now]

\* Time passes between two calls.
TTick ==
    /\ stamps.now < MaxClock
    /\ stamps' = [stamps EXCEPT !.now = @ + 1]
    /\ UNCHANGED <<queue, managerVars, call, simple, signals, config, processor>>

\* mark_started: job.started_at = datetime.now().isoformat(), line 150.
TMarkStarted ==
    /\ \E id \in CallIds :
         /\ queue' = mark_started(queue, id)
         /\ stamps' = Stamped("started_at", id)
    /\ UNCHANGED <<managerVars, call, simple, signals, config, processor>>

\* mark_completed: job.completed_at = datetime.now().isoformat(), line 172.
TMarkCompleted ==
    /\ Len(queue.completed_jobs) < MaxHistory
    /\ \E id \in CallIds :
         /\ queue' = mark_completed(queue, id, "out")
         /\ stamps' = Stamped("completed_at", id)
    /\ UNCHANGED <<managerVars, call, simple, signals, config, processor>>

\* mark_failed, line 186.
TMarkFailed ==
    /\ Len(queue.failed_jobs) < MaxHistory
    /\ \E id \in CallIds :
         /\ queue' = mark_failed(queue, id)
         /\ stamps' = Stamped("completed_at", id)
    /\ UNCHANGED <<managerVars, call, simple, signals, config, processor>>

\* mark_skipped, line 199.
TMarkSkipped ==
    /\ \E id \in CallIds :
         /\ queue' = mark_skipped(queue, id)
         /\ stamps' = Stamped("completed_at", id)
    /\ UNCHANGED <<managerVars, call, simple, signals, config, processor>>

\* A queue of 1..MaxJobs jobs that were added and never started.
InitClock ==
    /\ \E n \in 1..MaxJobs :
         \E ids \in IdSeqs(n) :
           /\ queue = FilledQueue(1, ids)
           /\ stamps = NoStamps(n)
    /\ ManagerInit
    /\ LockInit
    /\ call = NoCall
    /\ simple = NewSimple(<< >>, FALSE)
    /\ signals = {}
    /\ processor = NoProcessor
    /\ config = OwnConfigs

NextClock ==
    \/ TTick
    \/ TMarkStarted
    \/ TMarkCompleted
    \/ TMarkFailed
    \/ TMarkSkipped

SpecClock == InitClock /\ [][NextClock]_vars

\* ------------------------------------------- the batch processor facade
MaxStarts == 3     \* calls of start_processing

\* QThread.isRunning(), mutated: true only once run() has begun.
isRunning_late(thread) == thread = "running"

\* QThread.isRunning(): true from start() until run() has returned.
isRunning(thread) == thread \in {"started", "running"}

\* start_processing: RuntimeError while self.manager is running; otherwise
\* a new manager is created over the queue and started.
start_processing(p) ==
    IF Len(p.managers) > 0 /\ isRunning(p.managers[Len(p.managers)])
    THEN [p EXCEPT !.starts = @ + 1, !.raised = TRUE]
    ELSE [p EXCEPT !.starts = @ + 1, !.raised = FALSE,
                   !.managers = Append(@, "started")]

\* The engines a caller may name; TranslationEngineType[engine.upper()]
\* knows the first three.
KnownEngines == {"whisper", "argos", "chatgpt"}

Engines == KnownEngines \cup {"deepl"}

\* add_files: ValueError for an unknown engine, otherwise add_multiple_jobs;
\* the ids of the jobs added are returned.
PAddFiles ==
    /\ \E n \in 0..MaxPaths, engine \in Engines :
         \E fs \in [1..n -> Paths], ticks \in [1..n -> BOOLEAN] :
           /\ Len(queue.jobs) + Len(ExistingOf(fs)) <= MaxJobs
           /\ LET r == add_multiple_jobs(queue, fs, ticks)
              IN IF engine \in KnownEngines
                 THEN /\ queue' = r.queue
                      /\ call' = [op |-> "add_files", paths |-> fs,
                                  raised |-> FALSE,
                                  jobs |-> [k \in DOMAIN r.jobs |->
                                              r.queue.jobs[r.jobs[k]].job_id]]
                 ELSE /\ queue' = queue
                      /\ call' = [op |-> "add_files", paths |-> fs,
                                  raised |-> TRUE, jobs |-> << >>]
    /\ UNCHANGED <<managerVars, simple, signals, config, stamps, processor>>

\* A caller calls start_processing.
PStartProcessing ==
    /\ processor.starts < MaxStarts
    /\ processor' = start_processing(processor)
    /\ UNCHANGED <<queue, managerVars, call, simple, signals, config, stamps>>

\* The thread of a started manager begins run().
PRunBegins ==
    /\ \E m \in 1..Len(processor.managers) :
         /\ processor.managers[m] = "started"
         /\ processor' = [processor EXCEPT !.managers[m] = "running"]
    /\ UNCHANGED <<queue, managerVars, call, simple, signals, config, stamps>>

\* run() of a manager returns.
PRunEnds ==
    /\ \E m \in 1..Len(processor.managers) :
         /\ processor.managers[m] = "running"
         /\ processor' = [processor EXCEPT !.managers[m] = "finished"]
    /\ UNCHANGED <<queue, managerVars, call, simple, signals, config, stamps>>

\* stop_processing: nothing without a manager; otherwise manager.stop(),
\* whose wait() returns once run() of that manager has returned.
PStopProcessing ==
    /\ Len(processor.managers) > 0
    /\ processor' = [processor EXCEPT !.managers[Len(processor.managers)] =
                                        "finished"]
    /\ UNCHANGED <<queue, managerVars, call, simple, signals, config, stamps>>

NextStart ==
    \/ PAddFiles
    \/ PStartProcessing
    \/ PRunBegins
    \/ PRunEnds
    \/ PStopProcessing

SpecStart == InitQueue /\ [][NextStart]_vars

\* ------------------------------------------------ the sequential processor
\* The job run() is working on (job_index counts the jobs it is done with).
Current == simple.job_index + 1

\* The config map of the job at position i of processor s.
SimpleConfigOf(s, i) == IF s.shared THEN 1 ELSE i

Emit(s, kind, id) == [s EXCEPT !.events = Append(@, <<kind, id>>)]

\* run() begins, lines 35-37.
SRunBegin ==
    /\ simple.pc = "idle"
    /\ simple' = [simple EXCEPT !.is_running = TRUE, !.completed = 0,
                                !.failed = 0, !.pc = "loop"]
    /\ UNCHANGED <<queue, managerVars, call, signals, config, stamps, processor>>

\* The head of the loop, lines 40-73: the loop is over, or is_running is
\* false and it breaks, or the job turns RUNNING with progress 0 and
\* job_started is emitted.
SNextJob ==
    /\ simple.pc = "loop"
    /\ simple' =
         IF simple.job_index < Len(simple.jobs) /\ simple.is_running
         THEN Emit([simple EXCEPT !.jobs[Current].status = RUNNING,
                                  !.jobs[Current].progress = 0,
                                  !.pc = "exec"],
                   "job_started", simple.jobs[Current].job_id)
         ELSE [simple EXCEPT !.pc = "finally"]
    /\ UNCHANGED <<queue, managerVars, call, signals, config, stamps, processor>>

\* The executor calls on_progress: job_progress is emitted, lines 53-54.
SOnProgress ==
    /\ simple.pc = "exec"
    /\ simple.calls[Current].progress < MaxCalls
    /\ simple' = Emit([simple EXCEPT !.calls[Current].progress = @ + 1],
                      "job_progress", simple.jobs[Current].job_id)
    /\ UNCHANGED <<queue, managerVars, call, signals, config, stamps, processor>>

\* The executor calls on_completed, lines 58-60.
SOnCompleted ==
    /\ simple.pc = "exec"
    /\ simple.calls[Current].completed < MaxCalls
    /\ simple' = Emit([simple EXCEPT !.calls[Current].completed = @ + 1,
                                     !.jobs[Current].status = COMPLETED],
                      "job_completed", simple.jobs[Current].job_id)
    /\ UNCHANGED <<queue, managerVars, call, signals, config, stamps, processor>>

\* The executor calls on_failed, lines 64-67.
SOnFailed ==
    /\ simple.pc = "exec"
    /\ simple.calls[Current].failed < MaxCalls
    /\ simple' = Emit([simple EXCEPT !.calls[Current].failed = @ + 1,
                                     !.jobs[Current].status = FAILED,
                                     !.error_emitted[SimpleConfigOf(simple, Current)] = TRUE],
                      "job_failed", simple.jobs[Current].job_id)
    /\ UNCHANGED <<queue, managerVars, call, signals, config, stamps, processor>>

\* Lines 77-102, mutated: without the except clause an exception leaves
\* the loop for the finally block.
after_executor_abort(s, r) ==
    LET i == s.job_index + 1
        id == s.jobs[i].job_id
        ended == [s EXCEPT !.calls[i].result = r, !.job_index = i,
                           !.pc = "loop"]
        counted ==
            IF r = "true"
            THEN [ended EXCEPT !.jobs[i].status = COMPLETED,
                               !.completed = @ + 1]
            ELSE IF r = "false" /\ s.error_emitted[SimpleConfigOf(s, i)]
            THEN [ended EXCEPT !.jobs[i].status = FAILED, !.failed = @ + 1]
            ELSE Emit([ended EXCEPT !.jobs[i].status = FAILED,
                                    !.failed = @ + 1],
                      "job_failed", id)
    IN IF r = "raise"
       THEN [ended EXCEPT !.pc = "finally"]
       ELSE Emit(counted, "batch_progress", i)

\* Lines 77-102, mutated: a true result emits job_completed as well.
after_executor_reemit(s, r) ==
    LET i == s.job_index + 1
        id == s.jobs[i].job_id
        ended == [s EXCEPT !.calls[i].result = r, !.job_index = i,
                           !.pc = "loop"]
        counted ==
            IF r = "true"
            THEN Emit([ended EXCEPT !.jobs[i].status = COMPLETED,
                                    !.completed = @ + 1],
                      "job_completed", id)
            ELSE IF r = "false" /\ s.error_emitted[SimpleConfigOf(s, i)]
            THEN [ended EXCEPT !.jobs[i].status = FAILED, !.failed = @ + 1]
            ELSE Emit([ended EXCEPT !.jobs[i].status = FAILED,
                                    !.failed = @ + 1],
                      "job_failed", id)
    IN Emit(counted, "batch_progress", i)

\* Lines 77-102: what run() does with the executor's result r. A true
\* result counts the job as completed; a false one counts it as failed and
\* emits job_failed unless on_failed did; an exception counts it as failed
\* and emits job_failed. Then batch_progress is emitted.
after_executor(s, r) ==
    LET i == s.job_index + 1
        id == s.jobs[i].job_id
        ended == [s EXCEPT !.calls[i].result = r, !.job_index = i,
                           !.pc = "loop"]
        counted ==
            IF r = "true"
            THEN [ended EXCEPT !.jobs[i].status = COMPLETED,
                               !.completed = @ + 1]
            ELSE IF r = "false" /\ s.error_emitted[SimpleConfigOf(s, i)]
            THEN [ended EXCEPT !.jobs[i].status = FAILED, !.failed = @ + 1]
            ELSE Emit([ended EXCEPT !.jobs[i].status = FAILED,
                                    !.failed = @ + 1],
                      "job_failed", id)
    IN Emit(counted, "batch_progress", i)

\* The executor returns or raises.
SExecutorEnds ==
    /\ simple.pc = "exec"
    /\ \E r \in Results : simple' = after_executor(simple, r)
    /\ UNCHANGED <<queue, managerVars, call, signals, config, stamps, processor>>

\* finally, lines 104-111: batch_finished carries the counts.
SFinally ==
    /\ simple.pc = "finally"
    /\ simple' = [simple EXCEPT
                    !.is_running = FALSE,
                    !.finished = Append(@, [total |-> Len(simple.jobs),
                                            completed |-> simple.completed,
                                            failed |-> simple.failed]),
                    !.pc = "done"]
    /\ UNCHANGED <<queue, managerVars, call, signals, config, stamps, processor>>

\* stop(), lines 113-116, from another thread: is_running = False, then a
\* wait of at most five seconds.
SStop ==
    /\ ~simple.stopped
    /\ simple' = [simple EXCEPT !.is_running = FALSE, !.stopped = TRUE]
    /\ UNCHANGED <<queue, managerVars, call, signals, config, stamps, processor>>

\* A processor over 0..MaxJobs fresh jobs, started.
InitSimple ==
    /\ queue = NewQueue(1)
    /\ ManagerInit
    /\ LockInit
    /\ call = NoCall
    /\ signals = {}
    /\ processor = NoProcessor
    /\ config = OwnConfigs
    /\ stamps = NoStamps(0)
    /\ \E n \in 0..MaxJobs, shared \in BOOLEAN :
         \E ids \in IdSeqs(n) :
           simple = NewSimple([i \in 1..n |-> TranslationJob("a.mp4", ids[i])],
                              shared)

NextSimple ==
    \/ SRunBegin
    \/ SNextJob
    \/ SOnProgress
    \/ SOnCompleted
    \/ SOnFailed
    \/ SExecutorEnds
    \/ SFinally
    \/ SStop

SpecSimple == InitSimple /\ [][NextSimple]_vars

\* ------------------------------------------------------------- the claims
Running(q) == WithStatus(q, RUNNING)

\* The job a unit's dispatch set RUNNING: mark_started acts on the first job
\* carrying the dispatched job's id.
Marked(w) == FirstWithId(queue, WorkerId(w))

\* C1: during a run of the manager, under every interleaving of the control
\* loop with the units, the number of RUNNING jobs never exceeds
\* max_parallel_jobs.
C1_RunningWithinCapacity ==
    Cardinality(Running(queue)) <= queue.max_parallel_jobs

\* C1's case: the queue is at capacity while a job is still pending and the
\* control loop has just been refused a job.
C1_AtCapacityWithPending ==
    /\ Cardinality(Running(queue)) = queue.max_parallel_jobs
    /\ PendingSet(queue) # {}
    /\ is_running
    /\ mpc = "check_done"

\* C2: every snapshot of get_statistics satisfies
\* total_jobs = pending + active + completed + failed + skipped, skipped being
\* the number of SKIPPED jobs.
C2_StatisticsAddUp ==
    LET st == get_statistics(queue)
    IN st.total_jobs = st.pending + st.active + st.completed + st.failed
                         + Cardinality(WithStatus(queue, SKIPPED))

\* C3: once a job is COMPLETED, FAILED or SKIPPED, no later step changes its
\* status to PENDING or RUNNING.
C3_NoResurrection ==
    [][\A i \in 1..Len(queue.jobs) :
          queue.jobs[i].status \in Terminal
             => queue'.jobs[i].status \notin {PENDING, RUNNING}]_vars

\* C4: a job whose executor returned true without having invoked on_completed
\* is not RUNNING once its unit has finished.
C4_TrueWithoutCompletedEndsTerminal ==
    \A w \in 1..Len(workers) :
        (/\ workers[w].pc = "finished"
         /\ workers[w].result = "true"
         /\ workers[w].n_completed = 0)
           => queue.jobs[workers[w].job].status # RUNNING

\* No two jobs of the queue carry the same id.
DistinctIds(q) ==
    \A i, j \in 1..Len(q.jobs) : q.jobs[i].job_id = q.jobs[j].job_id => i = j

\* C5: with stop() never called and every executor invocation over, the
\* control loop is never left polling with a pending job that get_next_job
\* will not hand out (no unit is left that could change the queue, so the
\* loop would never exit).  Stated for jobs that carry distinct ids.
C5_NoPendingJobLeftUndispatchable ==
    DistinctIds(queue) =>
    ~ (/\ stop_pc = "idle"
       /\ mpc = "check_done"
       /\ \A w \in 1..Len(workers) : workers[w].pc = "finished"
       /\ PendingSet(queue) # {}
       /\ get_next_job(queue) = NoJob)

\* C6: all_jobs_completed is emitted exactly once in every run that ends, and
\* not before the run ends, whatever failed and whether the run drained or
\* was stopped.
C6_FinalSnapshotExactlyOnce ==
    emitted = IF mpc = "done" THEN 1 ELSE 0

\* C6's case: a run that was stopped with a job still pending and a failure
\* recorded has ended.
C6_StoppedRunWithFailureEnded ==
    /\ mpc = "done"
    /\ stop_pc # "idle"
    /\ final_stats.failed >= 1
    /\ final_stats.pending >= 1

\* C7: in the final snapshot, completed + failed + skipped = total_jobs.
\* Stated for the runs stop() was never called in, which drain the queue.
C7_FinalSnapshotAccountsForAll ==
    (emitted >= 1 /\ stop_pc = "idle")
       => final_stats.completed + final_stats.failed
            + Cardinality(WithStatus(queue, SKIPPED)) = final_stats.total_jobs

\* C8: a job whose executor raised ends in FAILED.
C8_RaisedJobEndsFailed ==
    \A w \in 1..Len(workers) :
        (workers[w].pc = "finished" /\ workers[w].result = "raise")
           => queue.jobs[workers[w].job].status = FAILED

\* The earliest-inserted PENDING job.
FirstPending(q) == CHOOSE i \in PendingSet(q) : \A k \in PendingSet(q) : i <= k

\* C9: jobs are marked RUNNING in insertion order (when a job is marked, every
\* job added before it has been marked before); get_next_job hands out the
\* earliest-inserted PENDING job, which is still that when it is marked, and
\* hands out none while the RUNNING jobs are at or above capacity.
C9_FifoDispatch ==
    /\ \A w \in 1..Len(workers) : \A a \in 1..(Marked(w) - 1) :
          \E v \in 1..(w - 1) : Marked(v) = a
    /\ mpc = "mark" => next_job = FirstPending(queue)
    /\ Cardinality(Running(queue)) >= queue.max_parallel_jobs
          => get_next_job(queue) = NoJob

\* C9's case: two jobs have been marked RUNNING, the older one first.
C9_TwoJobsStartedInOrder ==
    /\ Len(workers) >= 2
    /\ Marked(1) = 1
    /\ Marked(2) = 2

\* C10: after stop() has returned, no job becomes RUNNING.
C10_NoStartAfterStopReturned ==
    [][stop_pc = "returned"
          => \A i \in 1..Len(queue.jobs) :
                queue'.jobs[i].status = RUNNING
                   => queue.jobs[i].status = RUNNING]_vars

\* C10's case: stop() has returned with a job still pending and a unit still
\* executing.
C10_StopReturnedWithPending ==
    /\ stop_pc = "returned"
    /\ PendingSet(queue) # {}
    /\ \E w \in 1..Len(workers) : workers[w].pc = "exec"

\* C11: once stop() has cleared the flag, the control loop dispatches no
\* further job: no step taken after the call spawns a unit.
C11_NoDispatchAfterStopCalled ==
    [][stop_pc # "idle" => Len(workers') = Len(workers)]_vars

\* The job an id refers to is in a terminal state.
RefersToTerminal(q, id) ==
    /\ FirstWithId(q, id) # NoJob
    /\ q.jobs[FirstWithId(q, id)].status \in Terminal

\* C12: mark_started, update_progress, mark_completed, mark_failed and
\* mark_skipped called with the id of a job that is already COMPLETED, FAILED
\* or SKIPPED leave the queue as it is.
C12_CallsOnTerminalJobAreNoOps ==
    \A id \in CallIds :
        RefersToTerminal(queue, id) =>
            /\ mark_started(queue, id) = queue
            /\ \A p \in ProgressInputs : update_progress(queue, id, p) = queue
            /\ \A out \in {None, "", "out"} :
                  mark_completed(queue, id, out) = queue
            /\ mark_failed(queue, id) = queue
            /\ mark_skipped(queue, id) = queue

\* C13: mark_started, update_progress, mark_completed, mark_failed and
\* mark_skipped called with an id no job carries leave every job record, the
\* active set and both history lists as they are.
C13_CallsOnUnknownIdAreNoOps ==
    \A id \in CallIds :
        FirstWithId(queue, id) = NoJob =>
            /\ mark_started(queue, id) = queue
            /\ \A p \in ProgressInputs : update_progress(queue, id, p) = queue
            /\ \A out \in {None, "", "out"} :
                  mark_completed(queue, id, out) = queue
            /\ mark_failed(queue, id) = queue
            /\ mark_skipped(queue, id) = queue

\* C13's case: a queue with a job in every collection (a RUNNING job in the
\* active set, an entry in each history list) and an id no job carries.
C13_UnknownIdOnBusyQueue ==
    /\ queue.active_jobs # {}
    /\ Len(queue.completed_jobs) >= 1
    /\ Len(queue.failed_jobs) >= 1
    /\ \E id \in CallIds : FirstWithId(queue, id) = NoJob

\* Times the job at position i occurs in a history list.
Occurrences(list, i) == Cardinality({k \in 1..Len(list) : list[k] = i})

\* C14: a job is recorded as failed at most once, whatever terminal callbacks
\* its executor produced: it occurs at most once in failed_jobs (each entry is
\* one job_failed event and one unit of statistics' failed count).
C14_FailedRecordedOnce ==
    \A i \in 1..Len(queue.jobs) : Occurrences(queue.failed_jobs, i) <= 1

\* C15: a job whose executor returned false without having invoked on_failed
\* is FAILED once its unit is through.
C15_FalseWithoutOnFailedEndsFailed ==
    \A w \in 1..Len(workers) :
        (/\ workers[w].pc \in {"exiting", "finished"}
         /\ workers[w].result = "false"
         /\ workers[w].n_failed = 0)
           => queue.jobs[workers[w].job].status = FAILED

\* Every job has been handed to an executor, and every executor invocation
\* has invoked on_completed exactly once, returned true and is over.
AllExecutorsSucceeded ==
    /\ \A i \in 1..Len(queue.jobs) :
          \E w \in 1..Len(workers) : workers[w].job = i
    /\ \A w \in 1..Len(workers) :
          /\ workers[w].pc = "finished"
          /\ workers[w].result = "true"
          /\ workers[w].n_completed = 1
          /\ workers[w].n_failed = 0

\* C16: when every executor has invoked on_completed once and returned true
\* (stop() never called), the queue's snapshot is total_jobs = N,
\* completed = N, failed = 0, pending = 0, active = 0.
C16_AllSucceededSnapshot ==
    (stop_pc = "idle" /\ AllExecutorsSucceeded) =>
        LET st == get_statistics(queue)
        IN /\ st.total_jobs = Len(queue.jobs)
           /\ st.completed = Len(queue.jobs)
           /\ st.failed = 0
           /\ st.pending = 0
           /\ st.active = 0

\* C20: every job's progress is within 0..100.
C20_ProgressWithinBounds ==
    \A i \in 1..Len(queue.jobs) : queue.jobs[i].progress \in 0..100

\* C20's case: update_progress has clamped 150 to 100 (a job that was never
\* completed stands at 100) and -5 to 0 (a completed job stands at 0).
C20_ClampedAtBothEnds ==
    /\ \E i \in 1..Len(queue.jobs) :
          queue.jobs[i].status = PENDING /\ queue.jobs[i].progress = 100
    /\ \E i \in 1..Len(queue.jobs) :
          queue.jobs[i].status = COMPLETED /\ queue.jobs[i].progress = 0

\* C17: with one job whose executor never returns, a call to stop() returns,
\* and by then all_jobs_completed has been emitted once with a snapshot whose
\* completed count is 0.
C17_StopReturnsDespiteHangingExecutor ==
    (stop_pc = "waiting") ~>
        (stop_pc = "returned" /\ emitted = 1 /\ final_stats.completed = 0)

\* Positions of the manager inside a queue method.
ManagerInside == {"get_next_in", "mark_in", "stats_in", "final_in", "pending_in"}

\* Positions of a unit inside a queue method.
WorkerInside == {"on_completed_in", "on_failed_in", "emit_failed_in"}

\* C18: the queue's lock is held only inside a queue method: not by a unit
\* whose executor is running, not by the manager while it sleeps between two
\* rounds or waits for a unit, and by one thread at most; so whoever waits
\* for the lock waits for a thread that is about to leave it.
C18_LockHeldOnlyInsideQueueMethods ==
    /\ Cardinality(lock) <= 1
    /\ Manager \in lock <=> mpc \in ManagerInside
    /\ \A w \in 1..Len(workers) : w \in lock <=> workers[w].pc \in WorkerInside

\* C18's case: the manager sleeps between two rounds while a unit is inside
\* a queue method, and a unit's executor runs while the manager is inside one.
C18_SleepingWhileUnitInside ==
    /\ mpc = "sleep"
    /\ \E w \in 1..Len(workers) : w \in lock

\* C19: the dict get_statistics returns holds the counts of the queue as it
\* is at the moment of the return (and was since the method was entered).
C19_SnapshotOfOneState ==
    [][(snapshot.reads = 1 /\ snapshot'.reads = 2)
          => Returned(snapshot') = get_statistics(queue)]_vars

\* C19's case: a snapshot was returned in the middle of the units' reports:
\* it counts a job still active and a result already recorded, and a unit
\* has recorded its result and not ended yet.
C19_SnapshotWhileUnitsReport ==
    /\ snapshot.reads = 2
    /\ snapshot.active >= 1
    /\ \E w \in 1..Len(workers) : workers[w].pc = "exiting"
    /\ snapshot.completed + snapshot.failed >= 1

\* C25: for every job, completed_at is set if and only if the job's status
\* is COMPLETED, FAILED or SKIPPED.
C25_CompletedAtIffTerminal ==
    \A i \in 1..Len(queue.jobs) :
        queue.jobs[i].completed_at # None <=> queue.jobs[i].status \in Terminal

\* C26: no two jobs of the queue share a job_id.
C26_JobIdsUnique == DistinctIds(queue)

\* Units spawned that the control loop has not reaped: the units still
\* running (a running unit is never reaped) and the units still entered in
\* active_threads.
Unreaped ==
    {w \in 1..Len(workers) : workers[w].pc # "finished"}
        \cup {active_threads[id] : id \in DOMAIN active_threads}

\* C27: the units spawned and not yet reaped are at most max_parallel_jobs.
C27_UnreapedWithinCapacity ==
    Cardinality(Unreaped) <= queue.max_parallel_jobs

\* C28: a job with a non-null output_path has status COMPLETED.
C28_OutputPathOnlyWhenCompleted ==
    \A i \in 1..Len(queue.jobs) :
        queue.jobs[i].output_path # None => queue.jobs[i].status = COMPLETED

\* C23: get_progress_summary returns percentage (the floor of the mean of
\* all jobs' progress), completed, total and active, for every queue content,
\* the empty queue included.
C23_ProgressSummary ==
    LET s == get_progress_summary(queue)
        n == Len(queue.jobs)
    IN /\ DOMAIN s = {"percentage", "completed", "total", "active"}
       /\ s.total = n
       /\ s.completed = Len(queue.completed_jobs)
       /\ s.active = Cardinality(queue.active_jobs)
       /\ IF n = 0 THEN s.percentage = 0
          ELSE /\ s.percentage * n <= SumProgress(queue.jobs)
               /\ SumProgress(queue.jobs) < (s.percentage + 1) * n

\* C24: clear_completed empties the completed and the failed history and
\* leaves the job list, every job's fields and the active set as they are.
C24_ClearCompletedKeepsLiveSet ==
    LET c == clear_completed(queue)
    IN /\ c.completed_jobs = << >>
       /\ c.failed_jobs = << >>
       /\ c.jobs = queue.jobs
       /\ c.active_jobs = queue.active_jobs
       /\ c.max_parallel_jobs = queue.max_parallel_jobs

\* C24's case: clear_completed has acted on a queue with history and a live
\* set: a COMPLETED job and a FAILED job are in no history list any more
\* while a job is active.
C24_HistoryClearedLiveSetKept ==
    /\ queue.completed_jobs = << >>
    /\ queue.failed_jobs = << >>
    /\ queue.active_jobs # {}
    /\ \E i \in 1..Len(queue.jobs) : queue.jobs[i].status \in {COMPLETED, FAILED}

\* The jobs at positions n+1.. of q are fresh jobs for these files, in order.
FreshJobsFor(q, n, files) ==
    /\ Len(q.jobs) = n + Len(files)
    /\ \A k \in 1..Len(files) :
          /\ q.jobs[n + k].file_path = files[k]
          /\ q.jobs[n + k].status = PENDING
          /\ q.jobs[n + k].progress = 0

\* Everything of the queue but the jobs added behind position n is as before.
OnlyAppended(q, qnew, n) ==
    /\ SubSeq(qnew.jobs, 1, n) = q.jobs
    /\ qnew.active_jobs = q.active_jobs
    /\ qnew.completed_jobs = q.completed_jobs
    /\ qnew.failed_jobs = q.failed_jobs
    /\ qnew.max_parallel_jobs = q.max_parallel_jobs

\* C21: add_job with a path that does not exist raises and leaves the queue
\* as it is; with an existing path it appends exactly one PENDING job with
\* progress 0 at the end of the job list, and returns it.
C21_AddJobChecksSource ==
    [][(call' # call /\ call'.op = "add_job") =>
          LET f == call'.paths[1]
              n == Len(queue.jobs)
          IN IF f \notin ExistingFiles
             THEN call'.raised /\ queue' = queue
             ELSE /\ ~call'.raised
                  /\ FreshJobsFor(queue', n, <<f>>)
                  /\ OnlyAppended(queue, queue', n)
                  /\ call'.jobs = <<n + 1>>]_vars

\* C21's case: add_job has raised on a queue that holds a job.
C21_RaisedOnFilledQueue ==
    /\ call.op = "add_job"
    /\ call.raised
    /\ Len(queue.jobs) >= 1

\* C22: add_multiple_jobs raises nothing, adds exactly one job per existing
\* source, in input order, none for the others, and returns the jobs it added.
C22_AddMultipleSkipsMissing ==
    [][(call' # call /\ call'.op = "add_multiple_jobs") =>
          LET files == ExistingOf(call'.paths)
              n == Len(queue.jobs)
          IN /\ ~call'.raised
             /\ FreshJobsFor(queue', n, files)
             /\ OnlyAppended(queue, queue', n)
             /\ call'.jobs = [k \in 1..Len(files) |-> n + k]]_vars

\* C22's case: three sources, the second missing, have left two jobs.
C22_ThreeSourcesOneMissing ==
    /\ call.op = "add_multiple_jobs"
    /\ call.paths = <<"a.mp4", "missing.mp4", "b.mp4">>
    /\ Len(queue.jobs) = 2
    /\ Len(call.jobs) = 2

\* An executor invocation like the mock's: progress reported, on_completed
\* called once, on_failed never, and a true result.
MockLike(c) ==
    /\ c.progress >= 1
    /\ c.completed = 1
    /\ c.failed = 0
    /\ c.result = "true"

\* Events of one kind the processor has emitted for an id.
EventCount(kind, id) ==
    Cardinality({k \in 1..Len(simple.events) : simple.events[k] = <<kind, id>>})

\* Jobs of the processor that carry an id.
JobsWithId(id) ==
    Cardinality({i \in 1..Len(simple.jobs) : simple.jobs[i].job_id = id})

\* C29: when every job's executor has reported progress, called on_completed
\* and returned true, the finished run has emitted job_started and
\* job_completed once per job and no job_failed, and batch_finished once with
\* completed = the number of jobs and failed = 0.
C29_MockRunCounts ==
    (/\ simple.pc = "done"
     /\ \A i \in 1..Len(simple.jobs) : MockLike(simple.calls[i]))
    => /\ \A i \in 1..Len(simple.jobs) :
            LET id == simple.jobs[i].job_id
            IN /\ EventCount("job_started", id) = JobsWithId(id)
               /\ EventCount("job_completed", id) = JobsWithId(id)
               /\ EventCount("job_failed", id) = 0
       /\ Len(simple.finished) = 1
       /\ simple.finished[1].completed = Len(simple.jobs)
       /\ simple.finished[1].failed = 0

\* C29's case: a run over MaxJobs jobs, each executed like the mock, is over.
C29_MockRunOver ==
    /\ simple.pc = "done"
    /\ Len(simple.jobs) = MaxJobs
    /\ \A i \in 1..Len(simple.jobs) : MockLike(simple.calls[i])

\* C30: the queue mutation precedes the matching event, and job_started
\* precedes every other event of the id: at job_completed(id) the job is
\* COMPLETED in the queue, at job_failed(id) it is FAILED, and every
\* job_progress, job_completed and job_failed follows job_started(id).
C30_MutationBeforeEvent ==
    \A e \in signals :
        /\ e.kind = "job_completed" => e.status = COMPLETED
        /\ e.kind = "job_failed" => e.status = FAILED
        /\ e.started

\* C31: within one run each job is dispatched at most once: no two execution
\* units are spawned for the same job (each unit invokes the executor once).
C31_DispatchedAtMostOnce ==
    \A v, w \in 1..Len(workers) : workers[v].job = workers[w].job => v = w

\* C32: a callback that an executor reads from its job's config reports on
\* that job: every event caused by the executor of a unit carries the id of
\* the unit's own job.
C32_CallbacksReportOwnJob ==
    \A w \in 1..Len(workers) : workers[w].reported \subseteq {WorkerId(w)}

\* The jobs held in active_jobs: mark_started stores under an id the first
\* job that carries it.
ActiveJobs(q) == {FirstWithId(q, id) : id \in q.active_jobs}

C34_HistoryMirrorsStatus ==
    \A i \in 1..Len(queue.jobs) :
        /\ Occurrences(queue.completed_jobs, i) =
              (IF queue.jobs[i].status = COMPLETED THEN 1 ELSE 0)
        /\ Occurrences(queue.failed_jobs, i) =
              (IF queue.jobs[i].status = FAILED THEN 1 ELSE 0)

\* C35: started_at and completed_at are written at most once per job: once
\* a value is stored, no later operation changes it.
C35_TimestampsWrittenOnce ==
    [][\A i \in 1..Len(queue.jobs) :
          /\ stamps.started_at[i] # Unset
                => stamps'.started_at[i] = stamps.started_at[i]
          /\ stamps.completed_at[i] # Unset
                => stamps'.completed_at[i] = stamps.completed_at[i]]_vars

\* The positions in the event log of the events of a kind.
EventsOfKind(kind) ==
    {e \in 1..Len(simple.events) : simple.events[e][1] = kind}

\* The jobs whose executor has been invoked and has returned or raised.
Executed == {i \in 1..Len(simple.jobs) : simple.calls[i].result # None}

\* C36: the sequential processor runs the jobs one at a time in list order:
\* at most one job is RUNNING; the k-th job_started is for the k-th job and
\* is emitted after the executors of the k-1 jobs before it have returned or
\* raised; and a run that was not stopped has invoked every executor,
\* whatever the earlier ones returned or raised.
C36_SequentialInListOrder ==
    /\ Cardinality({i \in 1..Len(simple.jobs) :
                       simple.jobs[i].status = RUNNING}) <= 1
    /\ \A e \in EventsOfKind("job_started") :
          LET k == Cardinality({d \in EventsOfKind("job_started") : d <= e})
          IN /\ k <= Len(simple.jobs)
             /\ simple.events[e][2] = simple.jobs[k].job_id
             /\ Cardinality({d \in EventsOfKind("batch_progress") : d < e})
                   = k - 1
             /\ 1..(k - 1) \subseteq Executed
    /\ (simple.pc = "done" /\ ~simple.stopped)
          => Executed = 1..Len(simple.jobs)

\* C36's case: the first executor raised or returned false, and the run went
\* on to the last job and ended.
C36_RunWentOnAfterFailure ==
    /\ simple.pc = "done"
    /\ Len(simple.jobs) >= 2
    /\ simple.calls[1].result \in {"false", "raise"}
    /\ simple.calls[Len(simple.jobs)].result # None

\* job_failed events emitted while the job at position i was the current
\* job: those between the i-th job_started and the next one.
FailedEventsOf(i) ==
    LET starts == EventsOfKind("job_started")
        after(e) == Cardinality({d \in starts : d <= e})
    IN Cardinality({e \in EventsOfKind("job_failed") : after(e) = i})

\* C37: the sequential processor emits job_failed exactly once for every job
\* whose executor returned false or raised, whether or not the executor
\* called on_failed itself, with one config map per job or one for all.
C37_FailedEmittedOnce ==
    \A i \in Executed :
        simple.calls[i].result \in {"false", "raise"} => FailedEventsOf(i) = 1

\* The jobs of processor s whose executor was invoked and has ended, and
\* those of them with a given status.
ExecutedOf(s) == {i \in 1..Len(s.jobs) : s.calls[i].result # None}

ExecutedWith(s, status) == {i \in ExecutedOf(s) : s.jobs[i].status = status}

\* batch_finished was emitted at most once, and once the run is over exactly
\* once, with counts that match the jobs whose executor was invoked.
FinalCountsMatch(s) ==
    /\ Len(s.finished) <= 1
    /\ s.pc = "done" =>
          /\ Len(s.finished) = 1
          /\ s.finished[1].completed + s.finished[1].failed
                = Cardinality(ExecutedOf(s))
          /\ s.finished[1].completed
                = Cardinality(ExecutedWith(s, COMPLETED))
          /\ s.finished[1].failed = Cardinality(ExecutedWith(s, FAILED))

\* C38: batch_finished is emitted exactly once per run with counts that match
\* the invoked jobs (completed + failed = jobs invoked, completed = those
\* ending COMPLETED, failed = those ending FAILED); and once stop() has
\* cleared is_running no further job is started and every job not yet
\* started keeps its status.
C38_FinalCountsAndStop ==
    [][/\ FinalCountsMatch(simple')
       /\ simple.stopped =>
             /\ ~(simple.pc = "loop" /\ simple'.pc = "exec")
             /\ \A i \in 1..Len(simple.jobs) :
                   (i > simple.job_index /\ ~(simple.pc = "exec" /\ i = Current))
                      => simple'.jobs[i].status = simple.jobs[i].status]_vars

\* The managers whose scheduler run is not over.
ActiveRuns(p) == {m \in 1..Len(p.managers) : p.managers[m] # "finished"}

\* C39: no two scheduler runs are active over the queue at once:
\* start_processing raises and starts nothing while the previous manager is
\* still running, and creates and starts a new manager otherwise.
C39_OneSchedulerRunAtATime ==
    [][/\ Cardinality(ActiveRuns(processor')) <= 1
       /\ processor'.starts > processor.starts =>
             IF ActiveRuns(processor) # {}
             THEN /\ processor'.raised
                  /\ processor'.managers = processor.managers
             ELSE /\ ~processor'.raised
                  /\ processor'.managers
                        = Append(processor.managers, "started")]_vars

\* C39's case: start_processing has raised while a manager was running, after
\* an earlier manager had finished and been replaced.
C39_RaisedWhileSecondManagerRuns ==
    /\ processor.raised
    /\ Len(processor.managers) = 2
    /\ processor.managers[1] = "finished"
    /\ processor.managers[2] = "running"

====
